---- MODULE Spec2Model ----
(***************************************************************************)
(* Model of the Program Map Table decoder (src/src/ts/pmt.rs) and of the   *)
(* parse tool's read loops (src/examples/parse.rs).                        *)
(*                                                                         *)
(* Bytes are the integers 0..255, a reader over a byte slice is the        *)
(* sequence of the bytes it has not consumed yet, Option<T> is a sequence  *)
(* of at most one T, and a Result is a record [ok, kind, val, rest]: val   *)
(* holds the value (at most one) and rest the reader after the call.       *)
(***************************************************************************)
EXTENDS Integers, Sequences, FiniteSets, TLC

VARIABLES
    psi,        \* what Psi::read_from(reader) gives Pmt::read_from
    eofKind,    \* the ErrorKind an io::Error of a short read converts to
    pc,         \* position of Pmt::read_from
    reader,     \* pmt.rs:41 the unread part of syntax.table_data
    pcr_pid,    \* pmt.rs:44 Option<Pid>
    table,      \* pmt.rs:66 Vec<EsInfo>
    result,     \* what Pmt::read_from returned, once pc = "done"
    sem,        \* the semantic values the section was encoded from, if any
    mode,       \* parse.rs:22 OUTPUT_TYPE
    source,     \* what the reader of the tool will yield, read by read
    reads,      \* number of reads the tool issued on its reader
    out,        \* what the tool wrote to standard output, item by item
    status      \* "running", "eof", "error" (reader error), "io" (stdout error)

pmtVars  == <<psi, eofKind, pc, reader, pcr_pid, table, result, sem>>
toolVars == <<mode, source, reads, out, status>>
vars     == <<psi, eofKind, pc, reader, pcr_pid, table, result, sem,
              mode, source, reads, out, status>>

----------------------------------------------------------------------------
(* Bounds of the explored inputs. *)

MaxEntries == 2
MaxDescriptors == 2
MaxDataLen == 2
MaxChunk == 3

----------------------------------------------------------------------------
(* Generic helpers. *)

Min(a, b) == IF a < b THEN a ELSE b

Drop(s, n) == SubSeq(s, n + 1, Len(s))

RECURSIVE Flatten(_)
Flatten(ss) == IF ss = <<>> THEN <<>> ELSE Head(ss) \o Flatten(Tail(ss))

RECURSIVE SeqsUpTo(_, _)
SeqsUpTo(S, n) ==
    IF n = 0 THEN {<<>>}
    ELSE LET shorter == SeqsUpTo(S, n - 1)
         IN  shorter \cup {Append(s, x) : s \in {t \in shorter : Len(t) = n - 1}, x \in S}

----------------------------------------------------------------------------
(* Results. *)

Ok(v, r)  == [ok |-> TRUE, kind |-> "", val |-> <<v>>, rest |-> r]

Err(k)    == [ok |-> FALSE, kind |-> k, val |-> <<>>, rest |-> <<>>]

\* track_io!: the io::Error of a short read, converted to this crate's Error.
IoErr     == Err(eofKind)

\* reader.read_u8()
read_u8(r) == IF Len(r) < 1 THEN IoErr ELSE Ok(r[1], Drop(r, 1))

\* reader.read_u16::<BigEndian>()
read_u16(r) == IF Len(r) < 2 THEN IoErr ELSE Ok(r[1] * 256 + r[2], Drop(r, 2))

\* reader.read_exact(&mut data) for a buffer of n bytes
read_exact(r, n) == IF Len(r) < n THEN IoErr ELSE Ok(SubSeq(r, 1, n), Drop(r, n))

\* What a std::io::Take of limit bytes over r can still read.
Take(r, limit) == SubSeq(r, 1, Min(limit, Len(r)))

\* n & 0b1111_0000_0000_0000
ReservedBits(n) == (n \div 4096) * 4096

\* n & 0b0000_1100_0000_0000
UnusedBits(n) == ((n \div 1024) % 4) * 1024

\* n & 0b0000_0011_1111_1111
LengthBits(n) == n % 1024

----------------------------------------------------------------------------
(* Types of the crate that pmt.rs uses. *)

\* es::StreamType: the values of the stream-type registry.
StreamTypeRegistry == (1 .. 28) \cup {36, 66, 128, 129, 130, 131, 132, 133, 134, 135, 144}

\* StreamType::from_u8
StreamType_from_u8(n) ==
    IF n \in StreamTypeRegistry THEN Ok(n, <<>>) ELSE Err("InvalidInput")

\* Pid::read_from: 3 reserved bits, all ones, and the 13 bits of the PID.
Pid_read_from(r) ==
    LET n == read_u16(r)
    IN  IF ~n.ok THEN n
        ELSE IF n.val[1] \div 8192 # 7 THEN Err("InvalidInput")
        ELSE Ok(n.val[1] % 8192, n.rest)

----------------------------------------------------------------------------
(* Descriptor::read_from with read in place of read_exact: the data is what *)
(* was there to read.                                                       *)
Descriptor_read_from_Short(r) ==
    LET tag == read_u8(r)
    IN  IF ~tag.ok THEN tag
        ELSE LET len == read_u8(tag.rest)
             IN  IF ~len.ok THEN len
                 ELSE LET n == Min(len.val[1], Len(len.rest))
                      IN  Ok([tag |-> tag.val[1], data |-> SubSeq(len.rest, 1, n)],
                             Drop(len.rest, n))

(* Descriptor::read_from, pmt.rs:134-140. *)
Descriptor_read_from(r) ==
    LET tag == read_u8(r)
    IN  IF ~tag.ok THEN tag
        ELSE LET len == read_u8(tag.rest)
             IN  IF ~len.ok THEN len
                 ELSE LET data == read_exact(len.rest, len.val[1])
                      IN  IF ~data.ok THEN data
                          ELSE Ok([tag |-> tag.val[1], data |-> data.val[1]], data.rest)

(* The loop of EsInfo::read_from that stops where no descriptor fits any    *)
(* more, and skips the byte left over.                                      *)
RECURSIVE ReadDescriptors_SkipsLeftover(_, _, _)
ReadDescriptors_SkipsLeftover(r, limit, descriptors) ==
    IF limit > 1
    THEN LET d == Descriptor_read_from(Take(r, limit))
         IN  IF ~d.ok THEN d
             ELSE LET used == Len(Take(r, limit)) - Len(d.rest)
                  IN  ReadDescriptors_SkipsLeftover(Drop(r, used), limit - used,
                                                    Append(descriptors, d.val[1]))
    ELSE Ok(descriptors, Drop(r, limit))

(* EsInfo::read_from, pmt.rs:110-116: the descriptors read through          *)
(* reader.take(es_info_len); limit is Take's limit, r the reader under it.  *)
RECURSIVE ReadDescriptors(_, _, _)
ReadDescriptors(r, limit, descriptors) ==
    IF limit > 0
    THEN LET d == Descriptor_read_from(Take(r, limit))
         IN  IF ~d.ok THEN d
             ELSE LET used == Len(Take(r, limit)) - Len(d.rest)
                  IN  ReadDescriptors(Drop(r, used), limit - used,
                                      Append(descriptors, d.val[1]))
    ELSE IF limit # 0 THEN Err("InvalidInput")
    ELSE Ok(descriptors, r)

\* The stream type byte kept as it is when the registry does not know it.
ReadStreamType_Lenient(r) ==
    LET b == read_u8(r)
    IN  IF ~b.ok THEN b ELSE Ok(b.val[1], b.rest)

\* pmt.rs:92: the stream type byte, through StreamType::from_u8.
ReadStreamType(r) ==
    LET b == read_u8(r)
    IN  IF ~b.ok THEN b
        ELSE LET stream_type == StreamType_from_u8(b.val[1])
             IN  IF ~stream_type.ok THEN stream_type ELSE Ok(stream_type.val[1], b.rest)

\* pmt.rs:95-108: the ES info length field.
EsInfoLen(r) ==
    LET n == read_u16(r)
    IN  IF ~n.ok THEN n
        ELSE IF ReservedBits(n.val[1]) # 61440 THEN Err("InvalidInput")
        ELSE IF UnusedBits(n.val[1]) # 0 THEN Err("InvalidInput")
        ELSE Ok(LengthBits(n.val[1]), n.rest)

(* EsInfo::read_from, pmt.rs:91-123. *)
EsInfo_read_from(r) ==
    LET stream_type == ReadStreamType(r)
    IN  IF ~stream_type.ok THEN stream_type
        ELSE LET elementary_pid == Pid_read_from(stream_type.rest)
             IN  IF ~elementary_pid.ok THEN elementary_pid
                 ELSE LET es_info_len == EsInfoLen(elementary_pid.rest)
                      IN  IF ~es_info_len.ok THEN es_info_len
                          ELSE LET ds == ReadDescriptors(es_info_len.rest,
                                                         es_info_len.val[1], <<>>)
                               IN  IF ~ds.ok THEN ds
                                   ELSE Ok([stream_type    |-> stream_type.val[1],
                                            elementary_pid |-> elementary_pid.val[1],
                                            descriptors    |-> ds.val[1]], ds.rest)

----------------------------------------------------------------------------
(* Pmt::read_from, pmt.rs:27-76, one action per stage. *)

TABLE_ID == 2

\* pmt.rs:28-39 without the check of last_section_number.
PmtSyntax_AnyLastSection(p) ==
    IF ~p.ok THEN Err(p.kind)
    ELSE IF Len(p.tables) # 1 THEN Err("InvalidInput")
    ELSE LET t      == p.tables[Len(p.tables)]
             header == t.header
         IN  IF header.table_id # 2 THEN Err("InvalidInput")
             ELSE IF header.private_bit THEN Err("InvalidInput")
             ELSE IF t.syntax = <<>> THEN Err("InvalidInput")
             ELSE LET syntax == t.syntax[1]
                  IN  IF syntax.section_number # 0 THEN Err("InvalidInput")
                      ELSE IF ~syntax.current_next_indicator THEN Err("InvalidInput")
                      ELSE Ok(syntax, syntax.table_data)

\* pmt.rs:28-39: the one syntax section of the one table, or the error.
PmtSyntax(p) ==
    IF ~p.ok THEN Err(p.kind)
    ELSE IF Len(p.tables) # 1 THEN Err("InvalidInput")
    ELSE LET t      == p.tables[Len(p.tables)]
             header == t.header
         IN  IF header.table_id # TABLE_ID THEN Err("InvalidInput")
             ELSE IF header.private_bit THEN Err("InvalidInput")
             ELSE IF t.syntax = <<>> THEN Err("InvalidInput")
             ELSE LET syntax == t.syntax[1]
                  IN  IF syntax.section_number # 0 THEN Err("InvalidInput")
                      ELSE IF syntax.last_section_number # 0 THEN Err("InvalidInput")
                      ELSE IF ~syntax.current_next_indicator THEN Err("InvalidInput")
                      ELSE Ok(syntax, syntax.table_data)

\* The PCR PID with no sentinel: always Some.
PcrPid_NoSentinel(r) ==
    LET p == Pid_read_from(r)
    IN  IF ~p.ok THEN p ELSE Ok(<<p.val[1]>>, p.rest)

\* pmt.rs:43-48: the PCR PID, None when it is the all-ones PID.
PcrPid(r) ==
    LET p == Pid_read_from(r)
    IN  IF ~p.ok THEN p
        ELSE IF p.val[1] = 8191 THEN Ok(<<>>, p.rest)
        ELSE Ok(<<p.val[1]>>, p.rest)

\* The program info length checked before the reserved and unused bits.
ProgramInfoLen_LengthFirst(r) ==
    LET n == read_u16(r)
    IN  IF ~n.ok THEN n
        ELSE IF LengthBits(n.val[1]) # 0 THEN Err("Unsupported")
        ELSE IF ReservedBits(n.val[1]) # 61440 THEN Err("InvalidInput")
        ELSE IF UnusedBits(n.val[1]) # 0 THEN Err("InvalidInput")
        ELSE Ok(0, n.rest)

\* The program descriptors skipped instead of refused.
ProgramInfoLen_Skips(r) ==
    LET n == read_u16(r)
    IN  IF ~n.ok THEN n
        ELSE IF ReservedBits(n.val[1]) # 61440 THEN Err("InvalidInput")
        ELSE IF UnusedBits(n.val[1]) # 0 THEN Err("InvalidInput")
        ELSE Ok(LengthBits(n.val[1]), Drop(n.rest, LengthBits(n.val[1])))

\* pmt.rs:50-64: the program info length field.
ProgramInfoLen(r) ==
    LET n == read_u16(r)
    IN  IF ~n.ok THEN n
        ELSE IF ReservedBits(n.val[1]) # 61440 THEN Err("InvalidInput")
        ELSE IF UnusedBits(n.val[1]) # 0 THEN Err("InvalidInput")
        ELSE LET program_info_len == LengthBits(n.val[1])
             IN  IF program_info_len # 0 THEN Err("Unsupported")
                 ELSE Ok(program_info_len, n.rest)

\* The loop left at the first entry that fails, with the entries read so far.
LoopTurn_StopsOnError(r, t) ==
    LET e == EsInfo_read_from(r)
    IN  IF ~e.ok THEN Ok(t, <<>>) ELSE Ok(Append(t, e.val[1]), e.rest)

\* pmt.rs:67-69: what one turn of the loop leaves in (table, reader), or its error.
LoopTurn(r, t) ==
    LET e == EsInfo_read_from(r)
    IN  IF ~e.ok THEN e ELSE Ok(Append(t, e.val[1]), e.rest)

\* pmt.rs:70-75
MakePmt(syntax, pcr, t) ==
    [program_num    |-> syntax.table_id_extension,
     pcr_pid        |-> pcr,
     version_number |-> syntax.version_number,
     table          |-> t]

Pending == [ok |-> FALSE, kind |-> "pending", val |-> <<>>, rest |-> <<>>]

Fail(e) ==
    /\ pc' = "done"
    /\ result' = Err(e.kind)

ReadPsi ==
    /\ pc = "start"
    /\ LET s == PmtSyntax(psi)
       IN  IF s.ok
           THEN /\ pc' = "pcr_pid"
                /\ reader' = s.rest
                /\ UNCHANGED result
           ELSE /\ Fail(s)
                /\ UNCHANGED reader
    /\ UNCHANGED <<psi, eofKind, pcr_pid, table, sem>>
    /\ UNCHANGED toolVars

ReadPcrPid ==
    /\ pc = "pcr_pid"
    /\ LET p == PcrPid(reader)
       IN  IF p.ok
           THEN /\ pc' = "program_info_len"
                /\ pcr_pid' = p.val[1]
                /\ reader' = p.rest
                /\ UNCHANGED result
           ELSE /\ Fail(p)
                /\ UNCHANGED <<pcr_pid, reader>>
    /\ UNCHANGED <<psi, eofKind, table, sem>>
    /\ UNCHANGED toolVars

ReadProgramInfoLen ==
    /\ pc = "program_info_len"
    /\ LET n == ProgramInfoLen(reader)
       IN  IF n.ok
           THEN /\ pc' = "loop"
                /\ reader' = n.rest
                /\ UNCHANGED result
           ELSE /\ Fail(n)
                /\ UNCHANGED reader
    /\ UNCHANGED <<psi, eofKind, pcr_pid, table, sem>>
    /\ UNCHANGED toolVars

ReadEsInfo ==
    /\ pc = "loop"
    /\ reader # <<>>
    /\ LET e == LoopTurn(reader, table)
       IN  IF e.ok
           THEN /\ table' = e.val[1]
                /\ reader' = e.rest
                /\ UNCHANGED <<pc, result>>
           ELSE /\ Fail(e)
                /\ UNCHANGED <<table, reader>>
    /\ UNCHANGED <<psi, eofKind, pcr_pid, sem>>
    /\ UNCHANGED toolVars

Return ==
    /\ pc = "loop"
    /\ reader = <<>>
    /\ pc' = "done"
    /\ result' = Ok(MakePmt(psi.tables[1].syntax[1], pcr_pid, table), <<>>)
    /\ UNCHANGED <<psi, eofKind, reader, pcr_pid, table, sem>>
    /\ UNCHANGED toolVars

----------------------------------------------------------------------------
(* The sections Pmt::read_from is run on.                                   *)

\* ErrorKind, as far as Psi::read_from can fail.
ErrorKinds == {"Truncated", "SyncByteMismatch", "InvalidInput", "Unsupported",
               "ContinuityError"}

\* The kinds a short read converts to.
EofKinds == {"Truncated", "InvalidInput"}

\* The wire form of a Pid: 0b111 and the 13 bits (read by Pid::read_from).
EncodePid(pid) == <<224 + pid \div 256, pid % 256>>

\* The wire form of a length field: 0b1111, 0b00 and the 10 bits (pmt.rs:50-63, 95-108).
EncodeLength(len) == <<240 + len \div 256, len % 256>>

\* The wire form of a Descriptor (pmt.rs:135-138).
EncodeDescriptor(d) == <<d.tag, Len(d.data)>> \o d.data

EncodeDescriptors(ds) == Flatten([i \in 1 .. Len(ds) |-> EncodeDescriptor(ds[i])])

\* The wire form of an EsInfo (pmt.rs:92-115).
EncodeEsInfo(e) ==
    <<e.stream_type>> \o EncodePid(e.elementary_pid)
        \o EncodeLength(Len(EncodeDescriptors(e.descriptors)))
        \o EncodeDescriptors(e.descriptors)

EncodeTable(t) == Flatten([i \in 1 .. Len(t) |-> EncodeEsInfo(t[i])])

\* The wire form of a PMT's table_data (pmt.rs:43-69).
EncodeTableData(pcr, t) ==
    EncodePid(IF pcr = <<>> THEN 8191 ELSE pcr[1]) \o EncodeLength(0) \o EncodeTable(t)

\* ts::psi::Psi with its tables, and a failed Psi::read_from.
PsiOk(tables) == [ok |-> TRUE, kind |-> "", tables |-> tables]

PsiErr(k) == [ok |-> FALSE, kind |-> k, tables |-> <<>>]

\* A table of a Psi: its header and its syntax section.
Section(table_id, private_bit, syntax) ==
    [header |-> [table_id |-> table_id, private_bit |-> private_bit], syntax |-> syntax]

\* A syntax section a PMT may have (pmt.rs:37-39).
Syntax(ext, version, data) ==
    [section_number |-> 0, last_section_number |-> 0, current_next_indicator |-> TRUE,
     table_id_extension |-> ext, version_number |-> version, table_data |-> data]

\* The Psi that holds the section encoded from the Pmt p.
EncodePmt(p) ==
    PsiOk(<<Section(TABLE_ID, FALSE,
                    <<Syntax(p.program_num, p.version_number,
                             EncodeTableData(p.pcr_pid, p.table))>>)>>)

SemData == {[i \in 1 .. n |-> 160 + i] : n \in 0 .. MaxDataLen}

SemDescriptors == {[tag |-> 5 + Len(d), data |-> d] : d \in SemData}

SemEsInfos ==
    [stream_type : {15, 27}, elementary_pid : {33, 4660},
     descriptors : SeqsUpTo(SemDescriptors, MaxDescriptors)]

PlainEsInfos ==
    {[stream_type |-> 27, elementary_pid |-> 256, descriptors |-> <<>>],
     [stream_type |-> 15, elementary_pid |-> 257,
      descriptors |-> <<[tag |-> 10, data |-> <<106>>]>>]}

\* The entries before and after the one that varies.
Around ==
    {p \in SeqsUpTo(PlainEsInfos, MaxEntries - 1) \X SeqsUpTo(PlainEsInfos, MaxEntries - 1) :
        Len(p[1]) + Len(p[2]) <= MaxEntries - 1}

SemTables == {<<>>} \cup {p[1] \o <<e>> \o p[2] : p \in Around, e \in SemEsInfos}

SemPmts ==
    {[program_num |-> h[1], version_number |-> h[2], pcr_pid |-> pcr, table |-> t] :
        h \in {<<1, 0>>, <<513, 31>>}, pcr \in {<<>>, <<256>>}, t \in SemTables}

\* The 6 reserved and unused bits of a length field: 0b111100, and its 6 one-bit changes.
Top6 == {60, 28, 44, 52, 56, 62, 61}

\* Entries whose 5 bytes of header vary.
HeaderVariants ==
    {<<st, pidhi, 0, top * 4 + len \div 256, len % 256>> \o chunk :
        st \in {27, 0, 255}, pidhi \in {225, 1}, top \in Top6, len \in {0, 2, 257},
        chunk \in {<<>>, <<5, 0>>}}

\* Entries whose ES info length and descriptor bytes vary.
DescriptorVariants ==
    {<<27, 225, 0, 240, len>> \o chunk :
        len \in 0 .. MaxChunk + 1, chunk \in SeqsUpTo({0, 1, 2}, MaxChunk)}

\* Entries cut short.
TruncatedEntries == {SubSeq(<<27, 225, 0, 240, 0>>, 1, n) : n \in 1 .. 4}

RawTables ==
    {EncodeTable(p[1]) \o e \o EncodeTable(p[2]) :
        p \in Around, e \in HeaderVariants \cup DescriptorVariants \cup TruncatedEntries}

\* The 4 bytes before the entries, varied, and cut short.
RawPrefixes ==
    {<<pidhi, pidlo, top * 4 + len \div 256, len % 256>> :
        pidhi \in {255, 225, 31}, pidlo \in {255, 0}, top \in Top6, len \in {0, 1, 513}}
    \cup {SubSeq(<<255, 255, 240, 0>>, 1, n) : n \in 0 .. 3}

PlainTables == {<<>>} \cup {<<e>> : e \in PlainEsInfos}

RawData ==
    {EncodeTableData(<<>>, <<>>) \o t : t \in RawTables}
    \cup {p \o EncodeTable(t) : p \in RawPrefixes, t \in PlainTables}

\* Sections whose header or syntax section varies, and the failures of Psi::read_from.
RawPsis ==
    {PsiErr(k) : k \in ErrorKinds}
    \cup {PsiOk(<<>>)}
    \cup {PsiOk(<<Section(TABLE_ID, FALSE, <<Syntax(1, 0, EncodeTableData(<<>>, t))>>),
                  Section(TABLE_ID, FALSE, <<Syntax(1, 0, EncodeTableData(<<>>, t))>>)>>) :
            t \in PlainTables}
    \cup {PsiOk(<<Section(table_id, private_bit, <<>>)>>) :
            table_id \in {TABLE_ID, 0}, private_bit \in BOOLEAN}
    \cup {PsiOk(<<Section(table_id, private_bit,
                          <<[section_number |-> sn, last_section_number |-> lsn,
                             current_next_indicator |-> cni, table_id_extension |-> 1,
                             version_number |-> 0,
                             table_data |-> EncodeTableData(<<>>, t)]>>)>>) :
            table_id \in {TABLE_ID, 0}, private_bit \in BOOLEAN, sn \in {0, 1},
            lsn \in {0, 1, 2}, cni \in BOOLEAN, t \in PlainTables}
    \cup {PsiOk(<<Section(TABLE_ID, FALSE, <<Syntax(1, 0, d)>>)>>) : d \in RawData}

InitPmt ==
    /\ eofKind \in EofKinds
    /\ \/ \E p \in SemPmts : psi = EncodePmt(p) /\ sem = <<p>>
       \/ psi \in RawPsis /\ sem = <<>>
    /\ pc = "start"
    /\ reader = <<>>
    /\ pcr_pid = <<>>
    /\ table = <<>>
    /\ result = Pending

IdlePmt ==
    /\ eofKind = "Truncated"
    /\ psi = PsiErr("Truncated")
    /\ sem = <<>>
    /\ pc = "idle"
    /\ reader = <<>>
    /\ pcr_pid = <<>>
    /\ table = <<>>
    /\ result = Pending

IdleTool ==
    /\ mode = "ts"
    /\ source = <<>>
    /\ reads = 0
    /\ out = <<>>
    /\ status = "idle"

Init == InitPmt /\ IdleTool

Next == ReadPsi \/ ReadPcrPid \/ ReadProgramInfoLen \/ ReadEsInfo \/ Return

Spec == Init /\ [][Next]_vars

----------------------------------------------------------------------------
(* The parse tool, parse.rs:22-62: one action per turn of a mode's loop.    *)

MaxPackets == 3

\* StreamId::is_audio: the audio stream ids, 0xC0..0xDF.
is_audio(stream_id) == stream_id \in 192 .. 223

\* StreamId::is_video: the video stream ids, 0xE0..0xEF.
is_video(stream_id) == stream_id \in 224 .. 239

\* What read_pes_packet can deliver: an audio, a video and a private stream.
PesPackets == [header : [stream_id : {192, 224, 189}], data : {<<>>, <<1>>, <<2, 3>>}]

\* What read_ts_packet can deliver.
TsPackets == [pid : {0, 256}, payload : {<<>>, <<71>>}]

\* How a reader ends: with None, or with an error.
Endings == {"None", "Truncated", "InvalidInput"}

\* The reader's answer to the next read: Some(packet), None or Err(kind).
NextRead ==
    IF reads < Len(source.packets)
    THEN [some |-> <<source.packets[reads + 1]>>, end |-> ""]
    ELSE [some |-> <<>>, end |-> source.last]

\* parse.rs:26 println!("{:?}", packet)
TsLine(packet) == [line |-> "TsPacket", packet |-> packet]

\* parse.rs:32 println!("{:?} {} bytes", packet.header, packet.data.len())
PesLine(packet) == [line |-> "PesPacket", header |-> packet.header, bytes |-> Len(packet.data)]

\* The reader's error skipped: the loop goes on to the next read.
EndOfLoop_SkipsError(r) ==
    /\ r.some = <<>>
    /\ status' = (IF r.end = "None" THEN "eof" ELSE status)
    /\ UNCHANGED out

\* track_try_unwrap! on the reader's answer: the loop ends on None and on Err.
EndOfLoop(r) ==
    /\ r.some = <<>>
    /\ status' = (IF r.end = "None" THEN "eof" ELSE "error")
    /\ UNCHANGED out

\* println!: the line is written, or standard output fails and the tool panics.
PrintLine(line) ==
    \E written \in BOOLEAN :
        IF written
        THEN out' = Append(out, line) /\ UNCHANGED status
        ELSE UNCHANGED out /\ status' = "io"

\* parse.rs:41-45, 54-58: write_all writes all of data, or standard output fails after
\* part of it (an empty buffer is never handed to write) and track_try_unwrap! exits.
WriteAll(data) ==
    \E n \in 0 .. Len(data) :
        IF n = Len(data)
        THEN out' = out \o data /\ UNCHANGED status
        ELSE out' = out \o SubSeq(data, 1, n) /\ status' = "io"

\* parse.rs:23-28
TsLoop ==
    /\ mode = "ts"
    /\ status = "running"
    /\ reads' = reads + 1
    /\ LET r == NextRead
       IN  IF r.some = <<>> THEN EndOfLoop(r) ELSE PrintLine(TsLine(r.some[1]))
    /\ UNCHANGED <<mode, source>>
    /\ UNCHANGED pmtVars

\* parse.rs:29-34
PesLoop ==
    /\ mode = "pes"
    /\ status = "running"
    /\ reads' = reads + 1
    /\ LET r == NextRead
       IN  IF r.some = <<>> THEN EndOfLoop(r) ELSE PrintLine(PesLine(r.some[1]))
    /\ UNCHANGED <<mode, source>>
    /\ UNCHANGED pmtVars

\* The es-audio loop without its test of the stream id.
EsAudioLoop_NoFilter ==
    /\ mode = "es-audio"
    /\ status = "running"
    /\ reads' = reads + 1
    /\ LET r == NextRead
       IN  IF r.some = <<>> THEN EndOfLoop(r) ELSE WriteAll(r.some[1].data)
    /\ UNCHANGED <<mode, source>>
    /\ UNCHANGED pmtVars

\* parse.rs:35-47
EsAudioLoop ==
    /\ mode = "es-audio"
    /\ status = "running"
    /\ reads' = reads + 1
    /\ LET r == NextRead
       IN  IF r.some = <<>> THEN EndOfLoop(r)
           ELSE IF ~is_audio(r.some[1].header.stream_id) THEN UNCHANGED <<out, status>>
           ELSE WriteAll(r.some[1].data)
    /\ UNCHANGED <<mode, source>>
    /\ UNCHANGED pmtVars

\* parse.rs:48-60
EsVideoLoop ==
    /\ mode = "es-video"
    /\ status = "running"
    /\ reads' = reads + 1
    /\ LET r == NextRead
       IN  IF r.some = <<>> THEN EndOfLoop(r)
           ELSE IF ~is_video(r.some[1].header.stream_id) THEN UNCHANGED <<out, status>>
           ELSE WriteAll(r.some[1].data)
    /\ UNCHANGED <<mode, source>>
    /\ UNCHANGED pmtVars

InitTool ==
    /\ IdlePmt
    /\ mode \in {"ts", "pes", "es-audio", "es-video"}
    /\ source \in [packets : SeqsUpTo(IF mode = "ts" THEN TsPackets ELSE PesPackets,
                                      MaxPackets),
                   last : Endings]
    /\ reads = 0
    /\ out = <<>>
    /\ status = "running"

NextTool == TsLoop \/ PesLoop \/ EsAudioLoop \/ EsVideoLoop

SpecTool == InitTool /\ [][NextTool]_vars

----------------------------------------------------------------------------
(* Vocabulary of the properties. *)

Hdr == psi.tables[1].header

Syn == psi.tables[1].syntax[1]

\* Psi::read_from gave one table with a syntax section.
OneSection == psi.ok /\ Len(psi.tables) = 1 /\ psi.tables[1].syntax # <<>>

\* A PMT section but for its last_section_number.
ValidHeader ==
    /\ OneSection
    /\ Hdr.table_id = 2
    /\ ~Hdr.private_bit
    /\ Syn.section_number = 0
    /\ Syn.current_next_indicator

\* The 16-bit field of two bytes, and its parts.
Field(hi, lo) == hi * 256 + lo

Top6Of(hi) == hi \div 4

Low10Of(hi, lo) == (hi % 4) * 256 + lo

\* A state of the loop at the start of an entry whose stream type and PID are valid.
AtEntry ==
    /\ pc = "loop"
    /\ Len(reader) >= 5
    /\ reader[1] \in StreamTypeRegistry
    /\ reader[2] \div 32 = 7

\* The bytes the Take of the entry at the reader can read.
Region == SubSeq(reader, 6, Min(Len(reader), 5 + Low10Of(reader[4], reader[5])))

Failed(kinds) == pc' = "done" /\ ~result'.ok /\ result'.kind \in kinds

----------------------------------------------------------------------------
----------------------------------------------------------------------------
(* C2. Where everything before it is valid, a program info length field or  *)
(* an ES info length field whose 6 reserved and unused bits are not 111100  *)
(* (one bit changed, or more) makes Pmt::read_from fail with InvalidInput,  *)
(* whatever the 10 bits of the length are.                                  *)
C2_ReservedBitsInvalidInput ==
    [][/\ (pc = "program_info_len" /\ Len(reader) >= 2 /\ Top6Of(reader[1]) # 60)
            => Failed({"InvalidInput"})
       /\ (AtEntry /\ Top6Of(reader[4]) # 60)
            => Failed({"InvalidInput"})]_vars

\* An ES info length field with one reserved bit cleared and a length that is not 0,
\* in the second entry of a section, has made the decoder fail.
C2_Witness ==
    /\ pc = "done"
    /\ result = Err("InvalidInput")
    /\ Len(table) = 1
    /\ Len(reader) >= 5
    /\ reader[1] = 27
    /\ reader[2] = 225
    /\ Top6Of(reader[4]) = 28
    /\ Low10Of(reader[4], reader[5]) = 257

----------------------------------------------------------------------------
(* C3. A section whose header, syntax section, PCR PID and reserved bits    *)
(* are valid fails with Unsupported when its program_info_length is not 0,  *)
(* and the decoder goes on past the field only when it is 0.                *)
C3_ProgramInfoLenUnsupported ==
    (ValidHeader /\ Syn.last_section_number = 0 /\ Len(Syn.table_data) >= 4
        /\ Syn.table_data[1] \div 32 = 7 /\ Top6Of(Syn.table_data[3]) = 60)
    => LET len == Low10Of(Syn.table_data[3], Syn.table_data[4])
       IN  /\ (pc = "done" /\ len # 0) => result = Err("Unsupported")
           /\ (pc = "loop" \/ result.ok) => len = 0

C3_Witness ==
    /\ pc = "done"
    /\ result = Err("Unsupported")
    /\ ValidHeader
    /\ Syn.table_data[1] = 225
    /\ Syn.table_data[3] = 242
    /\ Syn.table_data[4] = 1

----------------------------------------------------------------------------
(* C4. Decoding the section encoded from a Pmt returns that Pmt:            *)
(* program_num is the table_id_extension, version_number the section's,    *)
(* the entries carry the encoded stream_type, elementary_pid and           *)
(* descriptors; and whenever a Pmt is returned its pcr_pid is None exactly  *)
(* when the 13 bits of the PCR PID field are all ones, and that PID         *)
(* otherwise.                                                               *)
C4_RoundTrip ==
    /\ (pc = "done" /\ sem # <<>>) => result = Ok(sem[1], <<>>)
    /\ (pc = "done" /\ result.ok)
        => LET field == Field(Syn.table_data[1], Syn.table_data[2]) % 8192
               pmt   == result.val[1]
           IN  /\ pmt.pcr_pid = <<>> <=> field = 8191
               /\ pmt.pcr_pid # <<>> => pmt.pcr_pid = <<field>>
               /\ pmt.program_num = Syn.table_id_extension
               /\ pmt.version_number = Syn.version_number

C4_Witness ==
    /\ pc = "done"
    /\ sem # <<>>
    /\ result.ok
    /\ result.val[1].program_num = 513
    /\ result.val[1].version_number = 31
    /\ result.val[1].pcr_pid = <<256>>
    /\ Len(result.val[1].table) = 2
    /\ Len(result.val[1].table[1].descriptors) = 2
    /\ result.val[1].table[1].descriptors[2].data = <<161, 162>>

----------------------------------------------------------------------------
(* Vocabulary of the properties on descriptors. *)

\* The bytes are descriptors laid end to end: 2 bytes and the declared length each.
RECURSIVE Tiles(_)
Tiles(bytes) ==
    \/ bytes = <<>>
    \/ /\ Len(bytes) >= 2
       /\ bytes[2] <= Len(bytes) - 2
       /\ Tiles(Drop(bytes, 2 + bytes[2]))

\* Some descriptor of the bytes declares more data than the bytes left after it.
RECURSIVE Overruns(_)
Overruns(bytes) ==
    /\ Len(bytes) >= 2
    /\ \/ bytes[2] > Len(bytes) - 2
       \/ Overruns(Drop(bytes, 2 + bytes[2]))

\* The descriptors of the entry at the reader use exactly its es_info_length bytes.
ExactFit ==
    /\ Len(reader) >= 5 + Low10Of(reader[4], reader[5])
    /\ Tiles(Region)

\* The loop has read the entry at the reader: it used 5 + es_info_length bytes.
EntryRead ==
    /\ pc' = "loop"
    /\ Len(table') = Len(table) + 1
    /\ reader' = Drop(reader, 5 + Low10Of(reader[4], reader[5]))
    /\ EncodeDescriptors(table'[Len(table')].descriptors) = Region

----------------------------------------------------------------------------
----------------------------------------------------------------------------
(* C7. A descriptor whose declared length exceeds the bytes left to its     *)
(* reader makes the decoder fail with Truncated or InvalidInput, and the    *)
(* descriptors of an entry that is read are, byte for byte with their       *)
(* declared lengths, the bytes of the entry's ES info.                      *)
C7_DescriptorNeverShort ==
    [][(AtEntry /\ Top6Of(reader[4]) = 60)
        => /\ Overruns(Region) => Failed({"Truncated", "InvalidInput"})
           /\ pc' = "loop"
                => LET ds == table'[Len(table')].descriptors
                       at(i) == Len(EncodeDescriptors(SubSeq(ds, 1, i - 1)))
                   IN  \A i \in 1 .. Len(ds) :
                           /\ ds[i].tag = Region[at(i) + 1]
                           /\ Len(ds[i].data) = Region[at(i) + 2]
                           /\ ds[i].data = SubSeq(Region, at(i) + 3,
                                                  at(i) + 2 + Region[at(i) + 2])]_vars

\* A descriptor that declares 2 bytes where its Take has 1 left, in a section that goes on.
C7_Witness ==
    /\ pc = "done"
    /\ ~result.ok
    /\ Len(reader) > 8
    /\ SubSeq(reader, 1, 5) = <<27, 225, 0, 240, 3>>
    /\ reader[7] = 2

----------------------------------------------------------------------------
(* C8. An entry whose stream_type byte is not in the registry makes the     *)
(* decoder fail with InvalidInput, and the stream_type of an entry that is  *)
(* read is the byte of the section, a value of the registry.                *)
C8_UnknownStreamType ==
    [][(pc = "loop" /\ reader # <<>>)
        => /\ reader[1] \notin StreamTypeRegistry => Failed({"InvalidInput"})
           /\ pc' = "loop"
                => /\ table'[Len(table')].stream_type = reader[1]
                   /\ reader[1] \in StreamTypeRegistry]_vars

C8_Witness ==
    /\ pc = "done"
    /\ result = Err("InvalidInput")
    /\ Len(table) = 1
    /\ Len(reader) >= 5
    /\ reader[1] = 255
    /\ reader[2] = 225
    /\ reader[4] = 240

----------------------------------------------------------------------------
(* C10. While Pmt::read_from reads entries, the entries read so far and the *)
(* bytes not read yet are the table_data after its 4 bytes of prefix; the   *)
(* Pmt returned holds entries that cover these bytes, in order; and an      *)
(* entry that fails to parse ends the call with that error, no Pmt.         *)
C10_EntriesCoverTableData ==
    /\ [](pc = "loop" => EncodeTable(table) \o reader = Drop(Syn.table_data, 4))
    /\ []((pc = "done" /\ result.ok)
            => EncodeTable(result.val[1].table) = Drop(Syn.table_data, 4))
    /\ [][(pc = "loop" /\ reader # <<>>)
            => /\ pc' = "done" => ~result'.ok
               /\ ~EsInfo_read_from(reader).ok
                    => /\ pc' = "done"
                       /\ result' = Err(EsInfo_read_from(reader).kind)]_vars

\* Fewer bytes than an entry's header after one entry.
C10_Witness ==
    /\ pc = "done"
    /\ result = Err(eofKind)
    /\ Len(table) = 1
    /\ Len(reader) \in 1 .. 4

----------------------------------------------------------------------------
(* Vocabulary of the properties of the tool. *)

\* The packets the reader has delivered.
Delivered == SubSeq(source.packets, 1, Min(reads, Len(source.packets)))

AudioBytes(ps) ==
    Flatten([i \in 1 .. Len(ps) |->
                IF is_audio(ps[i].header.stream_id) THEN ps[i].data ELSE <<>>])

VideoBytes(ps) ==
    Flatten([i \in 1 .. Len(ps) |->
                IF is_video(ps[i].header.stream_id) THEN ps[i].data ELSE <<>>])

\* What a mode writes for the packets ps.
Expected(ps) ==
    CASE mode = "ts"       -> [i \in 1 .. Len(ps) |-> TsLine(ps[i])]
      [] mode = "pes"      -> [i \in 1 .. Len(ps) |-> PesLine(ps[i])]
      [] mode = "es-audio" -> AudioBytes(ps)
      [] mode = "es-video" -> VideoBytes(ps)

----------------------------------------------------------------------------
(* C5. As long as standard output takes the writes, what es-audio has       *)
(* written is the data of the audio packets delivered so far, in arrival    *)
(* order, and nothing of any other packet; es-video likewise with the       *)
(* video packets.                                                           *)
C5_EsFilter ==
    /\ (mode = "es-audio" /\ status # "io") => out = AudioBytes(Delivered)
    /\ (mode = "es-video" /\ status # "io") => out = VideoBytes(Delivered)

\* Audio, video, audio, each with data, all delivered and written.
C5_Witness ==
    /\ mode = "es-audio"
    /\ status = "eof"
    /\ Len(source.packets) = 3
    /\ source.packets[1] = [header |-> [stream_id |-> 192], data |-> <<1>>]
    /\ source.packets[2] = [header |-> [stream_id |-> 224], data |-> <<2, 3>>]
    /\ source.packets[3] = [header |-> [stream_id |-> 192], data |-> <<2, 3>>]
    /\ out = <<1, 2, 3>>

----------------------------------------------------------------------------
(* C9. In every mode the read that returns None or an error is the last     *)
(* one: no read follows it, the loop has ended (with an error exactly when  *)
(* the reader gave one), and what was written is the output for the         *)
(* packets delivered before it, in order.                                   *)
C9_FirstErrorEnds ==
    /\ reads <= Len(source.packets) + 1
    /\ reads = Len(source.packets) + 1 => status # "running"
    /\ status = "error"
        => /\ source.last # "None"
           /\ reads = Len(source.packets) + 1
           /\ out = Expected(source.packets)
    /\ status = "eof"
        => /\ source.last = "None"
           /\ reads = Len(source.packets) + 1
           /\ out = Expected(source.packets)
    /\ status = "running" => out = Expected(Delivered)

C9_Witness ==
    /\ mode = "pes"
    /\ status = "error"
    /\ source.last = "Truncated"
    /\ Len(source.packets) = 2
    /\ Len(out) = 2
    /\ out[2].bytes = 2

====
